---------------------------- MODULE Spec2Model ----------------------------
(***************************************************************************)
(* A model of pulumi-mkschema: the translation of annotated Go struct      *)
(* declarations of one package into a Pulumi package schema.               *)
(*                                                                         *)
(* Go strings are sequences of atoms.  An atom is either one separator     *)
(* character ("," "." "=" "/" ":" "#") or a maximal run of other           *)
(* characters, so every string has one representation and the operations   *)
(* the program applies (Split on ",", LastIndex of ".", HasPrefix "ref=",   *)
(* suffix matching of package paths, Sprintf) act on atoms exactly as on   *)
(* the characters.  Index results are 1-based; 0 stands for Go's -1.       *)
(*                                                                         *)
(* Sum types (host types, results) are records with a "kind" field.        *)
(***************************************************************************)
EXTENDS Integers, Sequences, FiniteSets, TLC

VARIABLES
    pc,         \* position of the run (or of the call, in the unit specifications)
    Name,       \* g.Name: the Pulumi package name
    Package,    \* g.Package: Scope, the package-scope objects in scope.Names()
                \* order, and Files, the parsed files
    idx,        \* GatherPackageSchema's loop position in scope.Names()
    Resources,  \* g.Resources
    Types,      \* g.Types
    err,        \* the error in flight / returned
    sch,        \* the *schema.PackageSpec Generate returns
    log,        \* history: one entry per GatherTypeSchemas call
    arg,        \* unit specifications: the argument of the call
    ret         \* unit specifications: the value returned

vars == <<pc, Name, Package, idx, Resources, Types, err, sch, log, arg, ret>>

----------------------------------------------------------------------------
(* Bounds *)

\* most field declarations in one struct
MaxFields == 2
\* most comma-separated segments in one tag value
MaxSegs == 2

----------------------------------------------------------------------------
(* Strings *)

EmptyString == <<>>

Max(S) == CHOOSE m \in S : \A n \in S : n <= m

Min(S) == CHOOSE m \in S : \A n \in S : m <= n

\* strings.Index(s, sep) for a one-atom separator
Index(s, sep) ==
    LET hits == {i \in 1..Len(s) : s[i] = sep}
    IN  IF hits = {} THEN 0 ELSE Min(hits)

\* strings.LastIndex(s, sub)
LastIndex(s, sub) ==
    LET hits == {i \in 1..(Len(s) - Len(sub) + 1) :
                    SubSeq(s, i, i + Len(sub) - 1) = sub}
    IN  IF hits = {} THEN 0 ELSE Max(hits)

\* strings.HasPrefix(s, prefix)
HasPrefix(s, prefix) ==
    Len(s) >= Len(prefix) /\ SubSeq(s, 1, Len(prefix)) = prefix

\* strings.Split(s, sep) for a one-atom separator
RECURSIVE Split(_, _)
Split(s, sep) ==
    LET i == Index(s, sep)
    IN  IF i = 0 THEN <<s>>
        ELSE <<SubSeq(s, 1, i - 1)>> \o Split(SubSeq(s, i + 1, Len(s)), sep)

----------------------------------------------------------------------------
(* options.go *)

PropertyNameTag == <<"pulumi">>

PropertyOptionsTag == <<"pschema">>

\* the zero PropertyOptions
ZeroOptions ==
    [Name |-> EmptyString, Optional |-> FALSE, Replaces |-> FALSE,
     In |-> FALSE, Out |-> FALSE, Ref |-> EmptyString]

\* reflect.StructTag.Lookup: a tag is the sequence of its key:"value" pairs
StructTagLookup(tag, key) ==
    LET hits == {i \in 1..Len(tag) : tag[i].key = key}
    IN  IF hits = {} THEN [has |-> FALSE, value |-> EmptyString]
        ELSE [has |-> TRUE, value |-> tag[Min(hits)].value]

\* one iteration of the loop over the pschema segments
ApplyOption(result, key) ==
    CASE key = <<"optional">> -> [result EXCEPT !.Optional = TRUE]
      [] key = <<"replaces">> -> [result EXCEPT !.Replaces = TRUE]
      [] key = <<"in">>       -> [result EXCEPT !.In = TRUE]
      [] key = <<"out">>      -> [result EXCEPT !.Out = TRUE]
      [] OTHER ->
            IF HasPrefix(key, <<"ref", "=">>)
            THEN [result EXCEPT !.Ref = SubSeq(key, 3, Len(key))]
            ELSE result

RECURSIVE ApplyOptions(_, _)
ApplyOptions(result, keys) ==
    IF keys = <<>> THEN result
    ELSE ApplyOptions(ApplyOption(result, Head(keys)), Tail(keys))

ParsePropertyOptions(tag) ==
    LET name == StructTagLookup(tag, PropertyNameTag)
        opts == StructTagLookup(tag, PropertyOptionsTag)
        r1   == IF name.has THEN [ZeroOptions EXCEPT !.Name = name.value]
                ELSE ZeroOptions
        r2   == IF opts.has THEN ApplyOptions(r1, Split(opts.value, ","))
                ELSE r1
    IN  [has |-> name.has \/ opts.has, opts |-> r2, err |-> FALSE]

----------------------------------------------------------------------------
(* go/types values *)

\* a *types.TypeName: nil, or an object with a name and (unless it belongs to
\* the universe scope, like error) a package
NilObj == [isNil |-> TRUE, hasPkg |-> FALSE, path |-> EmptyString, name |-> EmptyString]

PkgObj(path, name) == [isNil |-> FALSE, hasPkg |-> TRUE, path |-> path, name |-> name]

UniverseObj(name) == [isNil |-> FALSE, hasPkg |-> FALSE, path |-> EmptyString, name |-> name]

\* types.Type
Basic(k) == [kind |-> "Basic", basic |-> k]

Interface(n) == [kind |-> "Interface", numMethods |-> n]

Named(obj, under) == [kind |-> "Named", obj |-> obj, underlying |-> under]

Pointer(elem) == [kind |-> "Pointer", elem |-> elem]

Map(key, elem) == [kind |-> "Map", key |-> key, elem |-> elem]

Slice(elem) == [kind |-> "Slice", elem |-> elem]

Array(elem) == [kind |-> "Array", elem |-> elem]

Chan(elem) == [kind |-> "Chan", elem |-> elem]

Signature == [kind |-> "Signature"]

\* a *types.Struct: fields are [name, anonymous, type, tag]
Struct(fields) == [kind |-> "Struct", fields |-> fields]

\* types.Type.String() of a named type: the package path, ".", the name
TypeString(t) ==
    IF t.obj.hasPkg THEN t.obj.path \o <<".">> \o t.obj.name ELSE t.obj.name

----------------------------------------------------------------------------
(* The type classifier *)

PulumiPkgPath ==
    <<"github", ".", "com", "/", "pulumi", "/", "pulumi", "/", "sdk", "/",
      "v3", "/", "go", "/", "pulumi">>

\* reflect.TypeOf of a value of a defined type: Name and PkgPath are its own
ReflectDefined(path, name) == [Name |-> name, PkgPath |-> path]

\* reflect.TypeOf of a pointer: a pointer type is not a defined type, its Name
\* and PkgPath are empty
ReflectPtrTo(rt) == [Name |-> EmptyString, PkgPath |-> EmptyString]

idlArchiveType == ReflectPtrTo(ReflectDefined(PulumiPkgPath, <<"Archive">>))

idlAssetType == ReflectPtrTo(ReflectDefined(PulumiPkgPath, <<"Asset">>))

idlResourceType == ReflectDefined(PulumiPkgPath, <<"ResourceState">>)

pkgMatch(pkg, match) ==
    LET ix == LastIndex(pkg, match)
    IN  ix # 0 /\ (ix - 1) + Len(match) = Len(pkg)

\* IsSpecial's results; panic: obj.Pkg() is nil and Path() dereferences it
Special(spec, kind) == [panic |-> FALSE, spec |-> spec, kind |-> kind]

SpecialPanic == [panic |-> TRUE, spec |-> FALSE, kind |-> "NotSpecialType"]

IsSpecial(obj) ==
    IF obj.isNil THEN Special(FALSE, "NotSpecialType")
    ELSE IF ~obj.hasPkg THEN SpecialPanic
    ELSE IF pkgMatch(obj.path, idlResourceType.PkgPath)
         THEN IF obj.name = idlArchiveType.Name THEN Special(TRUE, "SpecialArchiveType")
              ELSE IF obj.name = idlAssetType.Name THEN Special(TRUE, "SpecialAssetType")
              ELSE IF obj.name = idlResourceType.Name THEN Special(TRUE, "SpecialResourceType")
              ELSE Special(FALSE, "NotSpecialType")
         ELSE Special(FALSE, "NotSpecialType")

\* a boolean result, or a panic
Bool(v) == [panic |-> FALSE, val |-> v]

BoolPanic == [panic |-> TRUE, val |-> FALSE]

IsSpecialResource(obj) ==
    LET r == IsSpecial(obj)
    IN  IF r.panic THEN BoolPanic
        ELSE Bool(r.spec /\ r.kind = "SpecialResourceType")

\* IsResource's loop over the struct's fields, from field i on
RECURSIVE EmbedsResource(_, _)
EmbedsResource(fields, i) ==
    IF i > Len(fields) THEN Bool(FALSE)
    ELSE IF fields[i].anonymous /\ fields[i].type.kind = "Named"
         THEN LET r == IsSpecialResource(fields[i].type.obj)
              IN  IF r.panic THEN BoolPanic
                  ELSE IF r.val THEN Bool(TRUE)
                  ELSE EmbedsResource(fields, i + 1)
         ELSE EmbedsResource(fields, i + 1)

IsResource(obj, t) ==
    LET self == IsSpecialResource(obj)
        u    == IF t.kind = "Named" THEN t.underlying ELSE t
    IN  IF self.panic THEN BoolPanic
        ELSE IF self.val THEN Bool(TRUE)
        ELSE IF u.kind = "Struct" THEN EmbedsResource(u.fields, 1)
        ELSE Bool(FALSE)

IsEntity(obj, t) ==
    LET res  == IsResource(obj, t)
        spec == IsSpecial(obj)
    IN  IF res.panic THEN BoolPanic
        ELSE IF res.val THEN Bool(TRUE)
        ELSE IF spec.panic THEN BoolPanic
        ELSE Bool(spec.spec)

IsPrimitive(t) ==
    t.kind = "Basic"
    /\ t.basic \in {"Bool", "Int32", "Int64", "Float32", "Float64", "String"}

----------------------------------------------------------------------------
(* generate.go: the type mapper *)

\* a nil *schema.TypeSpec
NilTypeSpec == [isNil |-> TRUE]

\* a schema.TypeSpec; Type "" and Ref <<>> are the fields left unset
TypeSpec(type, ref, additional) ==
    [isNil |-> FALSE, Type |-> type, Ref |-> ref, AdditionalProperties |-> additional]

\* the results, a *schema.TypeSpec and an error; err "" is nil
MapOk(spec) == [err |-> "", spec |-> spec]

MapErr(kind) == [err |-> kind, spec |-> NilTypeSpec]

\* defaultRefType without the cut at the last dot
defaultRefType_Qualified(gName, t) == gName \o <<":", "index", ":">> \o t

\* defaultRefType: "<g.Name>:index:<t after its last dot>"
defaultRefType(gName, t) ==
    LET lix == LastIndex(t, <<".">>)
        u   == IF lix # 0 THEN SubSeq(t, lix + 1, Len(t)) ELSE t
    IN  gName \o <<":", "index", ":">> \o u

\* the switch on basic.Kind()
BasicTypeSpec(t) ==
    CASE t.basic = "Bool" -> MapOk(TypeSpec("boolean", EmptyString, NilTypeSpec))
      [] t.basic \in {"Int", "Int16", "Int32", "Int64"} ->
            MapOk(TypeSpec("integer", EmptyString, NilTypeSpec))
      [] t.basic \in {"Float32", "Float64"} ->
            MapOk(TypeSpec("number", EmptyString, NilTypeSpec))
      [] t.basic = "String" -> MapOk(TypeSpec("string", EmptyString, NilTypeSpec))
      [] OTHER -> MapErr("UnsupportedPrimitive")

\* the map case's key check
IsStringKey(kt) ==
    CASE kt.kind = "Basic" -> kt.basic = "String"
      [] kt.kind = "Named" ->
            kt.underlying.kind = "Basic" /\ kt.underlying.basic = "String"
      [] OTHER -> FALSE

RECURSIVE gatherSchemaType(_, _, _)
gatherSchemaType(gName, t, opts) ==
    CASE t.kind = "Basic" -> BasicTypeSpec(t)
      [] t.kind = "Interface" ->
            MapOk(TypeSpec("pulumi:pulumi:Any", EmptyString, NilTypeSpec))
      [] t.kind = "Named" ->
            IF t.underlying.kind \in {"Basic", "Interface"}
            THEN gatherSchemaType(gName, t.underlying, opts)
            ELSE IF t.underlying.kind = "Struct"
            THEN LET refType == IF opts.Ref = EmptyString
                                THEN defaultRefType(gName, TypeString(t))
                                ELSE opts.Ref
                 IN  MapOk(TypeSpec("", <<"#", "/", "types", "/">> \o refType, NilTypeSpec))
            ELSE MapErr("BadNamedFieldType")
      [] t.kind = "Pointer" -> gatherSchemaType(gName, t.elem, opts)
      [] t.kind = "Map" ->
            IF ~IsStringKey(t.key) THEN MapErr("NonStringMapKey")
            ELSE LET et == gatherSchemaType(gName, t.elem, ZeroOptions)
                 IN  IF et.err # "" THEN MapErr(et.err)
                     ELSE MapOk(TypeSpec("object", EmptyString, et.spec))
      [] t.kind = "Slice" ->
            LET et == gatherSchemaType(gName, t.elem, ZeroOptions)
            IN  IF et.err # "" THEN MapErr(et.err)
                ELSE MapOk(TypeSpec("", EmptyString, et.spec))
      [] OTHER -> MapErr("UnrecognizedFieldType")

----------------------------------------------------------------------------
(* generate.go: the schema assembler *)

\* errors: kind "" is nil; context lists the Wrapf prefixes, innermost first
NoError == [kind |-> "", reason |-> "", type |-> EmptyString, field |-> EmptyString,
            context |-> <<>>]

Error(kind, reason, type, field) ==
    [kind |-> kind, reason |-> reason, type |-> type, field |-> field, context |-> <<>>]

\* errors.Wrapf
Wrapf(e, msg) == [e EXCEPT !.context = Append(@, msg)]

\* strings.Trim(s, "\n")
RECURSIVE TrimNewlines(_)
TrimNewlines(s) ==
    IF s # <<>> /\ Head(s) = "\n" THEN TrimNewlines(Tail(s))
    ELSE IF s # <<>> /\ s[Len(s)] = "\n" THEN TrimNewlines(SubSeq(s, 1, Len(s) - 1))
    ELSE s

\* outcomes of gatherPropertySchemas: props and nil, nil and an error, or a panic
PropsOk(props) == [panic |-> FALSE, err |-> NoError, props |-> props]

PropsErr(e) == [panic |-> FALSE, err |-> e, props |-> <<>>]

PropsPanic == [panic |-> TRUE, err |-> NoError, props |-> <<>>]

\* the description lookup structNode.Fields.List[i].Doc of the
\* i-th field (1-based here); "panics" when the index is out of range
FieldDoc(node, i) ==
    IF node.type.kind # "StructType" THEN [panics |-> FALSE, has |-> FALSE, text |-> EmptyString]
    ELSE IF i > Len(node.type.list) THEN [panics |-> TRUE, has |-> FALSE, text |-> EmptyString]
    ELSE IF node.type.list[i].doc.isNil THEN [panics |-> FALSE, has |-> FALSE, text |-> EmptyString]
    ELSE [panics |-> FALSE, has |-> TRUE, text |-> TrimNewlines(node.type.list[i].doc.text)]

\* a schema.PropertySpec
PropertySpec(typeSpec, description) == [TypeSpec |-> typeSpec, Description |-> description]

\* ValidateOptions without the test of `optional` against the field's type
ValidateOptions_NoOptionalTest(opts, isRes, fld) ==
    IF opts.Name = EmptyString THEN "missing-name"
    ELSE IF opts.Out /\ ~isRes THEN "out"
    ELSE IF opts.Replaces /\ ~isRes THEN "replaces"
    ELSE ""

\* the validation of a tagged field's options: "" when they pass, else the
\* rule broken
ValidateOptions(opts, isRes, fld) ==
    IF opts.Name = EmptyString THEN "missing-name"
    ELSE IF opts.Out /\ ~isRes THEN "out"
    ELSE IF opts.Replaces /\ ~isRes THEN "replaces"
    ELSE IF fld.type.kind # "Pointer" /\ opts.Optional THEN "optional"
    ELSE ""

\* the loop of gatherPropertySchemas from field i on, props gathered so far
RECURSIVE gatherFields(_, _, _, _, _, _, _)
gatherFields(gName, node, t, s, isRes, i, props) ==
    IF i > Len(s.fields) THEN PropsOk(props)
    ELSE
    LET fld    == s.fields[i]
        parsed == ParsePropertyOptions(fld.tag)
        opts   == parsed.opts
    IN  IF parsed.err THEN PropsErr(Error("ParseError", "", t.name, fld.name))
        ELSE IF ~parsed.has THEN gatherFields(gName, node, t, s, isRes, i + 1, props)
        ELSE IF ValidateOptions(opts, isRes, fld) # ""
             THEN PropsErr(Error("TagError", ValidateOptions(opts, isRes, fld),
                                 t.name, fld.name))
        ELSE
        LET propType == gatherSchemaType(gName, fld.type, opts)
            doc      == FieldDoc(node, i)
        IN  IF propType.err # ""
            THEN PropsErr(Error("TypeMappingError", propType.err, t.name, fld.name))
            ELSE IF doc.panics THEN PropsPanic
            ELSE gatherFields(gName, node, t, s, isRes, i + 1,
                     (opts.Name :> PropertySpec(propType.spec,
                                       IF doc.has THEN doc.text ELSE EmptyString))
                     @@ props)

gatherPropertySchemas(gName, node, t, s) ==
    LET isRes == IsResource(t, s)
    IN  IF isRes.panic THEN PropsPanic
        ELSE gatherFields(gName, node, t, s, isRes.val, 1, <<>>)

\* a schema.ObjectTypeSpec
ObjectTypeSpec(props, description) ==
    [Type |-> "object", Properties |-> props, Description |-> description]

\* a schema.ResourceSpec and a schema.ComplexTypeSpec
ResourceSpec(typeSpec) == [ObjectTypeSpec |-> typeSpec, IsComponent |-> TRUE]

ComplexTypeSpec(typeSpec) == [ObjectTypeSpec |-> typeSpec]

\* outcomes of the gather functions: the registry as left, and nil, an error
\* or a panic
Gathered(resources, types) ==
    [panic |-> FALSE, err |-> NoError, Resources |-> resources, Types |-> types]

GatherErr(e, resources, types) ==
    [panic |-> FALSE, err |-> e, Resources |-> resources, Types |-> types]

GatherPanic(resources, types) ==
    [panic |-> TRUE, err |-> NoError, Resources |-> resources, Types |-> types]

\* AlreadyVisited looking in Types alone
AlreadyVisited_TypesOnly(resources, types, name) == name \in DOMAIN types

\* "Skip those that we've already visited"
AlreadyVisited(resources, types, name) ==
    LET hasType     == name \in DOMAIN types
        hasResource == name \in DOMAIN resources
    IN  hasType \/ hasResource

\* Register with the emptiness test made first: a resource without annotated
\* properties is dropped like a plain struct
Register_PropsFirst(resources, types, name, typeSpec, isRes, props) ==
    IF Cardinality(DOMAIN props) = 0
    THEN Gathered(resources, types)
    ELSE IF isRes
    THEN Gathered((name :> ResourceSpec(typeSpec)) @@ resources, types)
    ELSE Gathered(resources, (name :> ComplexTypeSpec(typeSpec)) @@ types)

\* the registration that ends gatherStructSchemas
Register(resources, types, name, typeSpec, isRes, props) ==
    IF isRes
    THEN Gathered((name :> ResourceSpec(typeSpec)) @@ resources, types)
    ELSE IF Cardinality(DOMAIN props) > 0
    THEN Gathered(resources, (name :> ComplexTypeSpec(typeSpec)) @@ types)
    ELSE Gathered(resources, types)

gatherStructSchemas(gName, resources, types, node, t, s) ==
    LET name == t.name
    IN  IF AlreadyVisited(resources, types, name)
        THEN Gathered(resources, types)
        ELSE
        LET p        == gatherPropertySchemas(gName, node, t, s)
            typeSpec == ObjectTypeSpec(p.props,
                            IF node.doc.isNil THEN EmptyString
                            ELSE TrimNewlines(node.doc.text))
            isRes    == IsResource(t, s)
        IN  IF p.panic THEN GatherPanic(resources, types)
            ELSE IF p.err.kind # "" THEN GatherErr(p.err, resources, types)
            ELSE IF isRes.panic THEN GatherPanic(resources, types)
            ELSE Register(resources, types, name, typeSpec, isRes.val, p.props)

\* the type specs of the files' top-level declarations, in the order
\* getTypeNode's loops meet them
RECURSIVE TypeSpecsOfDecls(_)
TypeSpecsOfDecls(decls) ==
    IF decls = <<>> THEN <<>>
    ELSE (IF Head(decls).kind = "GenDecl"
          THEN SelectSeq(Head(decls).specs, LAMBDA sp : sp.kind = "TypeSpec")
          ELSE <<>>) \o TypeSpecsOfDecls(Tail(decls))

RECURSIVE TypeSpecsOfFiles(_)
TypeSpecsOfFiles(files) ==
    IF files = <<>> THEN <<>>
    ELSE TypeSpecsOfDecls(Head(files).decls) \o TypeSpecsOfFiles(Tail(files))

NoNode == [isNil |-> TRUE]

getTypeNode(files, t) ==
    LET specs == TypeSpecsOfFiles(files)
        hits  == {i \in 1..Len(specs) : specs[i].name = t.name}
    IN  IF hits = {}
        THEN [node |-> NoNode, err |-> Error("DeclarationNotFound", "", t.name, EmptyString)]
        ELSE [node |-> specs[Min(hits)], err |-> NoError]

GatherTypeSchemas(gName, files, resources, types, t) ==
    LET found == getTypeNode(files, t)
    IN  IF found.err.kind # ""
        THEN GatherErr(Wrapf(found.err, "gathering Go type info"), resources, types)
        ELSE IF t.type.kind = "Named"
        THEN IF t.type.underlying.kind = "Struct"
             THEN gatherStructSchemas(gName, resources, types, found.node, t,
                                      t.type.underlying)
             ELSE GatherErr(Error("IllegalTopLevelKind", "underlying", t.name, EmptyString),
                            resources, types)
        ELSE GatherErr(Error("IllegalTopLevelKind", "kind", t.name, EmptyString),
                       resources, types)

\* a nil *schema.PackageSpec
NilSchema == [isNil |-> TRUE]

\* the map m re-keyed by defaultRefType
Requalified(gName, m) ==
    [q \in {defaultRefType(gName, k) : k \in DOMAIN m} |->
        m[CHOOSE k \in DOMAIN m : defaultRefType(gName, k) = q]]

Schema(gName, resources, types) ==
    [isNil |-> FALSE, Name |-> gName,
     Resources |-> Requalified(gName, resources),
     Types |-> Requalified(gName, types)]

----------------------------------------------------------------------------
(* The loader's output: what conf.Load() hands to the generator *)

\* the Go package under analysis (os.Args[2])
GoPkgPath == <<"github", ".", "com", "/", "acme", "/", "widgets">>

\* the Pulumi package names tried (os.Args[1])
PuPkgNames == {<<"acme">>, <<"acme", ".", "io">>}

\* a doc comment group: Text() ends with a newline
NoDoc == [isNil |-> TRUE, text |-> EmptyString]

Doc(text) == [isNil |-> FALSE, text |-> <<text, "\n">>]

\* struct tags
NoTag == <<>>

TagP(name) == <<[key |-> PropertyNameTag, value |-> name]>>

TagS(options) == <<[key |-> PropertyOptionsTag, value |-> options]>>

TagPS(name, options) == TagP(name) \o TagS(options)

\* one field declaration of a struct in the source: names (none: an embedded
\* field), a type, a tag and a doc comment shared by the names
Group(names, type, tag, doc) == [names |-> names, type |-> type, tag |-> tag, doc |-> doc]

\* the name of an embedded field: that of its type
EmbeddedName(type) == IF type.kind = "Pointer" THEN type.elem.obj.name ELSE type.obj.name

\* the fields of the *types.Struct the type checker makes of the declarations
RECURSIVE FieldsOf(_)
FieldsOf(groups) ==
    IF groups = <<>> THEN <<>>
    ELSE LET gr == Head(groups)
         IN  (IF gr.names = <<>>
              THEN <<[name |-> EmbeddedName(gr.type), anonymous |-> TRUE,
                      type |-> gr.type, tag |-> gr.tag]>>
              ELSE [j \in 1..Len(gr.names) |->
                      [name |-> gr.names[j], anonymous |-> FALSE,
                       type |-> gr.type, tag |-> gr.tag]])
             \o FieldsOf(Tail(groups))

\* the *ast.StructType the parser makes of them: one list entry per declaration
StructType(groups) ==
    [kind |-> "StructType",
     list |-> [i \in 1..Len(groups) |-> [names |-> groups[i].names, doc |-> groups[i].doc]]]

Ident == [kind |-> "Ident", list |-> <<>>]

\* the bodies of type declarations: type T struct {...}, type T U, type T = U
StructBody(groups) == [declKind |-> "struct", groups |-> groups, under |-> Struct(FieldsOf(groups))]

DefinedBody(under) == [declKind |-> "defined", groups |-> <<>>, under |-> under]

AliasBody(type) == [declKind |-> "alias", groups |-> <<>>, under |-> type]

\* the *types.TypeName of a declaration of the package
TypeNameObj(name, body) ==
    [isNil |-> FALSE, hasPkg |-> TRUE, path |-> GoPkgPath, name |-> name,
     objKind |-> "TypeName",
     type |-> IF body.declKind = "alias" THEN body.under
              ELSE Named(PkgObj(GoPkgPath, name), body.under)]

\* a package-scope object that is no type: a function
FuncObj(name) ==
    [isNil |-> FALSE, hasPkg |-> TRUE, path |-> GoPkgPath, name |-> name,
     objKind |-> "Func", type |-> Signature]

\* the *ast.TypeSpec of a declaration
TypeSpecNode(name, doc, body) ==
    [isNil |-> FALSE, kind |-> "TypeSpec", name |-> name, doc |-> doc,
     type |-> IF body.declKind = "struct" THEN StructType(body.groups) ELSE Ident]

GenDecl(specs) == [kind |-> "GenDecl", specs |-> specs]

FuncDecl == [kind |-> "FuncDecl", specs |-> <<>>]

----------------------------------------------------------------------------
(* The packages explored *)

ResourceStateType == Named(PkgObj(PulumiPkgPath, <<"ResourceState">>), Struct(<<>>))

ErrorType == Named(UniverseObj(<<"error">>), Interface(1))

\* field names by position in the struct
FieldName(k, j) == <<(IF j = 1 THEN "A" ELSE "B") \o ToString(k)>>

\* all sequences over S of length at most n
SeqsUpTo(S, n) == UNION {[1..m -> S] : m \in 0..n}

\* type Other struct: annotated, or without any annotation
OtherBodies ==
    {StructBody(<<Group(<<<<"Label">>>>, Basic("String"), TagP(<<"label">>), Doc("the label"))>>),
     StructBody(<<Group(<<<<"Label">>>>, Basic("String"), NoTag, NoDoc)>>)}

OtherType(other) == Named(PkgObj(GoPkgPath, <<"Other">>), other.under)

\* the field declarations Widget is made of: [n names, type, tag, doc]
GroupTemplates(other) ==
    {[n |-> 0, type |-> ResourceStateType, tag |-> NoTag, doc |-> NoDoc],
     [n |-> 0, type |-> ErrorType, tag |-> NoTag, doc |-> NoDoc],
     [n |-> 1, type |-> Basic("Int"), tag |-> NoTag, doc |-> Doc("internal")],
     [n |-> 1, type |-> Basic("String"), tag |-> TagP(<<"name">>), doc |-> Doc("the name")],
     [n |-> 1, type |-> Basic("String"), tag |-> TagPS(<<"name">>, <<"optional">>), doc |-> NoDoc],
     [n |-> 1, type |-> Basic("Bool"), tag |-> TagPS(<<"ready">>, <<"out">>), doc |-> NoDoc],
     [n |-> 1, type |-> Basic("String"), tag |-> TagPS(<<"id">>, <<"in", ",", "replaces">>), doc |-> NoDoc],
     [n |-> 1, type |-> Basic("String"), tag |-> TagS(<<"in">>), doc |-> NoDoc],
     [n |-> 1, type |-> Pointer(OtherType(other)), tag |-> TagPS(<<"other">>, <<"optional">>),
      doc |-> Doc("the other")],
     [n |-> 1, type |-> Chan(Basic("Int")), tag |-> TagP(<<"events">>), doc |-> NoDoc],
     [n |-> 2, type |-> Basic("Float64"), tag |-> TagP(<<"x">>), doc |-> Doc("coordinates")],
     [n |-> 2, type |-> Basic("Int"), tag |-> NoTag, doc |-> NoDoc]}

\* the k-th field declaration of a struct, from a template
GroupAt(tpl, k) ==
    Group([j \in 1..tpl.n |-> FieldName(k, j)], tpl.type, tpl.tag, tpl.doc)

WidgetBodies(other) ==
    {StructBody([k \in 1..Len(tpls) |-> GroupAt(tpls[k], k)]) :
        tpls \in SeqsUpTo(GroupTemplates(other), MaxFields)}

\* type helper ...: an unexported declaration, or none
NoBody == [declKind |-> "none", groups |-> <<>>, under |-> Signature]

HelperBodies ==
    {NoBody,
     DefinedBody(Basic("Int")),
     StructBody(<<Group(<<<<"Label">>>>, Basic("String"), TagP(<<"label">>), NoDoc)>>),
     StructBody(<<Group(<<<<"Count">>>>, Basic("Int"), NoTag, NoDoc)>>),
     StructBody(<<Group(<<>>, ResourceStateType, NoTag, NoDoc)>>)}

\* the declarations of a package, in source order: func New, type Widget,
\* type Other, type helper
SourceDecls(hasFunc, other, widget, helper) ==
    (IF hasFunc THEN <<[name |-> <<"New">>, body |-> NoBody]>> ELSE <<>>)
    \o <<[name |-> <<"Widget">>, body |-> widget], [name |-> <<"Other">>, body |-> other]>>
    \o (IF helper.declKind = "none" THEN <<>> ELSE <<[name |-> <<"helper">>, body |-> helper]>>)

\* the same, in the order of scope.Names(): sorted by name
ScopeDecls(hasFunc, other, widget, helper) ==
    (IF hasFunc THEN <<[name |-> <<"New">>, body |-> NoBody]>> ELSE <<>>)
    \o <<[name |-> <<"Other">>, body |-> other], [name |-> <<"Widget">>, body |-> widget]>>
    \o (IF helper.declKind = "none" THEN <<>> ELSE <<[name |-> <<"helper">>, body |-> helper]>>)

ScopeObj(d) ==
    IF d.body.declKind = "none" THEN FuncObj(d.name) ELSE TypeNameObj(d.name, d.body)

FileDecl(d) ==
    IF d.body.declKind = "none" THEN FuncDecl
    ELSE GenDecl(<<TypeSpecNode(d.name, Doc("a declaration"), d.body)>>)

LoadedPackage(hasFunc, other, widget, helper) ==
    LET src == SourceDecls(hasFunc, other, widget, helper)
        scp == ScopeDecls(hasFunc, other, widget, helper)
    IN  [Scope |-> [i \in 1..Len(scp) |-> ScopeObj(scp[i])],
         Files |-> <<[decls |-> [i \in 1..Len(src) |-> FileDecl(src[i])]]>>]

\* P is one of the packages explored
IsLoadedPackage(P) ==
    \E hasFunc \in BOOLEAN, helper \in HelperBodies, other \in OtherBodies :
        \E widget \in WidgetBodies(other) :
            P = LoadedPackage(hasFunc, other, widget, helper)

----------------------------------------------------------------------------
(* The run: main, Generate and GatherPackageSchema's loop *)

NoArg == [isNil |-> TRUE]

Init ==
    /\ pc = "gather"
    /\ Name \in PuPkgNames
    /\ IsLoadedPackage(Package)
    /\ idx = 1
    /\ Resources = <<>>
    /\ Types = <<>>
    /\ err = NoError
    /\ sch = NilSchema
    /\ log = <<>>
    /\ arg = NoArg
    /\ ret = NoArg

\* one iteration of GatherPackageSchema's loop on a *types.TypeName
GatherType ==
    /\ pc = "gather"
    /\ idx <= Len(Package.Scope)
    /\ Package.Scope[idx].objKind = "TypeName"
    /\ LET o == Package.Scope[idx]
           r == GatherTypeSchemas(Name, Package.Files, Resources, Types, o)
       IN  /\ Resources' = r.Resources
           /\ Types' = r.Types
           /\ log' = Append(log, [idx |-> idx,
                                  res |-> IF r.panic THEN "panic"
                                          ELSE IF r.err.kind # "" THEN "error" ELSE "ok",
                                  err |-> r.err])
           /\ IF r.panic
              THEN pc' = "panicked" /\ UNCHANGED <<idx, err>>
              ELSE IF r.err.kind # ""
              THEN /\ pc' = "gatherFailed"
                   /\ err' = Wrapf(r.err, "gathering Go type")
                   /\ UNCHANGED idx
              ELSE /\ idx' = idx + 1
                   /\ UNCHANGED <<pc, err>>
    /\ UNCHANGED <<Name, Package, sch, arg, ret>>

\* one iteration on an object that is no *types.TypeName
SkipObject ==
    /\ pc = "gather"
    /\ idx <= Len(Package.Scope)
    /\ Package.Scope[idx].objKind # "TypeName"
    /\ idx' = idx + 1
    /\ UNCHANGED <<pc, Name, Package, Resources, Types, err, sch, log, arg, ret>>

\* the loop is over: GatherPackageSchema returns nil, Generate returns g.Schema()
GenerateReturn ==
    /\ pc = "gather"
    /\ idx > Len(Package.Scope)
    /\ sch' = Schema(Name, Resources, Types)
    /\ pc' = "generated"
    /\ UNCHANGED <<Name, Package, idx, Resources, Types, err, log, arg, ret>>

\* GenerateFail returning the schema gathered so far beside the error
GenerateFail_PartialSchema ==
    /\ pc = "gatherFailed"
    /\ err' = Wrapf(err, "gathering Go package info")
    /\ sch' = Schema(Name, Resources, Types)
    /\ pc' = "generateFailed"
    /\ UNCHANGED <<Name, Package, idx, Resources, Types, log, arg, ret>>

\* GatherPackageSchema returned an error: Generate returns nil and the error
GenerateFail ==
    /\ pc = "gatherFailed"
    /\ err' = Wrapf(err, "gathering Go package info")
    /\ sch' = NilSchema
    /\ pc' = "generateFailed"
    /\ UNCHANGED <<Name, Package, idx, Resources, Types, log, arg, ret>>

\* main prints the schema
MainPrint ==
    /\ pc = "generated"
    /\ pc' = "printed"
    /\ UNCHANGED <<Name, Package, idx, Resources, Types, err, sch, log, arg, ret>>

\* main: log.Fatalf
MainFatal ==
    /\ pc = "generateFailed"
    /\ pc' = "fatal"
    /\ UNCHANGED <<Name, Package, idx, Resources, Types, err, sch, log, arg, ret>>

Next ==
    \/ GatherType
    \/ SkipObject
    \/ GenerateReturn
    \/ GenerateFail
    \/ MainPrint
    \/ MainFatal

Spec == Init /\ [][Next]_vars

----------------------------------------------------------------------------
(* Unit specifications: one call of a function on an argument *)

\* the generator's state in the unit specifications: nothing loaded or gathered
NoRun ==
    /\ Name = EmptyString
    /\ Package = [Scope |-> <<>>, Files |-> <<>>]
    /\ idx = 1
    /\ Resources = <<>>
    /\ Types = <<>>
    /\ err = NoError
    /\ sch = NilSchema
    /\ log = <<>>

\* strings.Join(segs, ",")
RECURSIVE Join(_)
Join(segs) ==
    IF segs = <<>> THEN EmptyString
    ELSE IF Len(segs) = 1 THEN Head(segs)
    ELSE Head(segs) \o <<",">> \o Join(Tail(segs))

\* the segments option lists are made of
OptionSegments ==
    {<<"optional">>, <<"replaces">>, <<"in">>, <<"out">>,
     <<"ref", "=", "aws", ":", "s3", ":", "Bucket">>, <<"ref", "=">>, <<"ref">>,
     <<"required">>, EmptyString}

\* the values of the pulumi key
NameValues ==
    {<<"name">>, EmptyString,
     <<"other", ",", "optional">>,
     <<"other", ",", "ref", "=", "aws", ":", "s3", ":", "Bucket", ",", "out">>,
     <<"id", ",", "replaces", ",", "in">>}

OptionValues == {Join(segs) : segs \in SeqsUpTo(OptionSegments, MaxSegs) \ {<<>>}}

\* the tags parsed: any of the two keys, after a json key or not
ParseTags ==
    {json \o name \o options :
        json \in {<<>>, <<[key |-> <<"json">>, value |-> <<"name", ",", "omitempty">>]>>},
        name \in {NoTag} \cup {TagP(v) : v \in NameValues},
        options \in {NoTag} \cup {TagS(v) : v \in OptionValues}}

ParseInit ==
    /\ pc = "call"
    /\ arg \in ParseTags
    /\ ret = NoArg
    /\ NoRun

ParseCall ==
    /\ pc = "call"
    /\ ret' = ParsePropertyOptions(arg)
    /\ pc' = "return"
    /\ UNCHANGED <<Name, Package, idx, Resources, Types, err, sch, log, arg>>

SpecParse == ParseInit /\ [][ParseCall]_vars

\* the objects classified
VendoredPulumiPkgPath == <<"acme", "/", "vendor", "/">> \o PulumiPkgPath

ClassifyPaths ==
    {PulumiPkgPath, VendoredPulumiPkgPath, GoPkgPath,
     PulumiPkgPath \o <<"/", "config">>,
     <<"v3", "/", "go", "/", "pulumi">>}

ClassifyNames == {<<"ResourceState">>, <<"Asset">>, <<"Archive">>, <<"Widget">>}

ClassifyObjs ==
    {PkgObj(path, name) : path \in ClassifyPaths, name \in ClassifyNames}
    \cup {NilObj, UniverseObj(<<"error">>)}

\* type Base struct { pulumi.ResourceState }: the marker, one level down
BaseType ==
    Named(PkgObj(GoPkgPath, <<"Base">>),
          Struct(<<[name |-> <<"ResourceState">>, anonymous |-> TRUE,
                    type |-> ResourceStateType, tag |-> NoTag]>>))

AssetType == Named(PkgObj(PulumiPkgPath, <<"Asset">>), Interface(1))

\* the fields of the structs classified
ClassifyFields ==
    {[name |-> <<"ResourceState">>, anonymous |-> TRUE, type |-> ResourceStateType, tag |-> NoTag],
     [name |-> <<"ResourceState">>, anonymous |-> TRUE,
      type |-> Named(PkgObj(VendoredPulumiPkgPath, <<"ResourceState">>), Struct(<<>>)), tag |-> NoTag],
     [name |-> <<"ResourceState">>, anonymous |-> TRUE, type |-> Pointer(ResourceStateType), tag |-> NoTag],
     [name |-> <<"State">>, anonymous |-> FALSE, type |-> ResourceStateType, tag |-> TagP(<<"state">>)],
     [name |-> <<"Base">>, anonymous |-> TRUE, type |-> BaseType, tag |-> NoTag],
     [name |-> <<"Asset">>, anonymous |-> TRUE, type |-> AssetType, tag |-> NoTag],
     [name |-> <<"error">>, anonymous |-> TRUE, type |-> ErrorType, tag |-> NoTag],
     [name |-> <<"Label">>, anonymous |-> FALSE, type |-> Basic("String"), tag |-> TagP(<<"label">>)]}

ClassifyStructs == {Struct(fields) : fields \in SeqsUpTo(ClassifyFields, MaxFields)}

ClassifyTypes ==
    ClassifyStructs
    \cup {Named(PkgObj(GoPkgPath, <<"Widget">>), s) : s \in ClassifyStructs}
    \cup {Basic("Int"), Interface(0)}

ClassifyInit ==
    /\ pc = "call"
    /\ arg \in [obj : ClassifyObjs, t : ClassifyTypes]
    /\ ret = NoArg
    /\ NoRun

ClassifyCall ==
    /\ pc = "call"
    /\ ret' = [special  |-> IsSpecial(arg.obj),
               resource |-> IsResource(arg.obj, arg.t),
               entity   |-> IsEntity(arg.obj, arg.t)]
    /\ pc' = "return"
    /\ UNCHANGED <<Name, Package, idx, Resources, Types, err, sch, log, arg>>

SpecClassify == ClassifyInit /\ [][ClassifyCall]_vars

\* most wrappers (pointer, slice, map) around a mapped type
MaxDepth == 2

LibPkgPath == <<"github", ".", "com", "/", "acme", "/", "lib">>

\* type Other struct in the package, with a field no mapping accepts
MapOtherType ==
    Named(PkgObj(GoPkgPath, <<"OtherStruct">>),
          Struct(<<[name |-> <<"Events">>, anonymous |-> FALSE,
                    type |-> Chan(Basic("Int")), tag |-> TagP(<<"events">>)]>>))

StringAliasType == Named(PkgObj(GoPkgPath, <<"ID">>), Basic("String"))

\* the types mapped, unwrapped
MapBaseTypes ==
    {Basic("Bool"), Basic("Int"), Basic("Int8"), Basic("Int64"), Basic("Uint8"),
     Basic("Float64"), Basic("String"), Basic("Complex128"),
     Interface(0), Interface(1),
     StringAliasType,
     Named(PkgObj(GoPkgPath, <<"Any">>), Interface(0)),
     Named(PkgObj(<<"io">>, <<"Reader">>), Interface(1)),
     ErrorType,
     MapOtherType,
     Named(PkgObj(LibPkgPath, <<"Thing">>), Struct(<<>>)),
     Named(PkgObj(GoPkgPath, <<"Tags">>), Map(Basic("String"), Basic("String"))),
     Named(PkgObj(GoPkgPath, <<"Handler">>), Signature),
     Chan(Basic("Int")), Signature, Array(Basic("Int")), Struct(<<>>)}

Wrapped(T) ==
    T \cup {Pointer(t) : t \in T} \cup {Slice(t) : t \in T}
      \cup {Map(k, t) : k \in {Basic("String"), Basic("Int"), StringAliasType}, t \in T}

RECURSIVE MapTypes(_)
MapTypes(depth) == IF depth = 0 THEN MapBaseTypes ELSE Wrapped(MapTypes(depth - 1))

\* the tags of the fields mapped
MapTags ==
    {TagP(<<"other">>),
     TagP(<<"other", ",", "optional">>),
     TagPS(<<"other">>, <<"optional">>),
     TagPS(<<"other">>, <<"ref", "=", "aws", ":", "s3", "/", "bucket", ":", "Bucket">>)}

MapInit ==
    /\ pc = "call"
    /\ arg \in [gName : PuPkgNames, t : MapTypes(MaxDepth), tag : MapTags]
    /\ ret = NoArg
    /\ NoRun

MapCall ==
    /\ pc = "call"
    /\ ret' = gatherSchemaType(arg.gName, arg.t, ParsePropertyOptions(arg.tag).opts)
    /\ pc' = "return"
    /\ UNCHANGED <<Name, Package, idx, Resources, Types, err, sch, log, arg>>

SpecMap == MapInit /\ [][MapCall]_vars

\* the declarations visited: two names, each with several bodies
VisitNames == {<<"Widget">>, <<"Other">>}

VisitBodies ==
    {StructBody(<<Group(<<>>, ResourceStateType, NoTag, NoDoc)>>),
     StructBody(<<Group(<<>>, ResourceStateType, NoTag, NoDoc),
                  Group(<<<<"Name">>>>, Basic("String"), TagP(<<"name">>), Doc("the name"))>>),
     StructBody(<<Group(<<<<"Name">>>>, Basic("String"), TagP(<<"name">>), Doc("the name"))>>),
     StructBody(<<Group(<<<<"Count">>>>, Basic("Int"), TagP(<<"count">>), NoDoc)>>),
     StructBody(<<Group(<<<<"Count">>>>, Basic("Int"), NoTag, NoDoc)>>),
     StructBody(<<Group(<<<<"Name">>>>, Basic("String"), TagPS(<<"name">>, <<"optional">>), NoDoc)>>),
     StructBody(<<Group(<<>>, ErrorType, NoTag, NoDoc)>>)}

VisitInit ==
    /\ pc = "visit"
    /\ Name \in PuPkgNames
    /\ Package = [Scope |-> <<>>, Files |-> <<>>]
    /\ idx = 1
    /\ Resources = <<>>
    /\ Types = <<>>
    /\ err = NoError
    /\ sch = NilSchema
    /\ log = <<>>
    /\ arg = NoArg
    /\ ret = NoArg

\* one call of gatherStructSchemas; arg keeps the declaration visited, ret the
\* outcome and the registry as it was before the call
Visit ==
    /\ pc = "visit"
    /\ \E name \in VisitNames, body \in VisitBodies :
          LET t == TypeNameObj(name, body)
              r == gatherStructSchemas(Name, Resources, Types,
                       TypeSpecNode(name, NoDoc, body), t, t.type.underlying)
          IN  /\ arg' = [isNil |-> FALSE, name |-> name, body |-> body]
              /\ ret' = [isNil |-> FALSE,
                         res |-> IF r.panic THEN "panic"
                                 ELSE IF r.err.kind # "" THEN "error" ELSE "ok",
                         resourcesBefore |-> Resources, typesBefore |-> Types]
              /\ Resources' = r.Resources
              /\ Types' = r.Types
    /\ UNCHANGED <<pc, Name, Package, idx, err, sch, log>>

SpecVisit == VisitInit /\ [][Visit]_vars

----------------------------------------------------------------------------
(* Properties of the run *)

\* a field carries an annotation: its tag has one of the two keys
HasAnnotation(fld) ==
    \E i \in 1..Len(fld.tag) : fld.tag[i].key \in {PropertyNameTag, PropertyOptionsTag}

\* the declaration the i-th GatherTypeSchemas call was made on
Visited(i) == Package.Scope[log[i].idx]

IsStructDecl(t) == t.type.kind = "Named" /\ t.type.underlying.kind = "Struct"

Registered(name) == name \in DOMAIN Resources \/ name \in DOMAIN Types

\* C1: after gatherStructSchemas has processed a struct declaration without
\* error, a resource is in Resources with isComponent set (whatever its
\* properties) and not in Types; a non-resource with an annotated field is in
\* Types and not in Resources; a non-resource without one is in neither.
C1_Registration ==
    \A i \in 1..Len(log) :
        log[i].res = "ok" =>
            LET t    == Visited(i)
                s    == t.type.underlying
                name == t.name
            IN  IF IsResource(t, s).val
                THEN /\ name \in DOMAIN Resources
                     /\ Resources[name].IsComponent
                     /\ name \notin DOMAIN Types
                ELSE IF \E k \in 1..Len(s.fields) : HasAnnotation(s.fields[k])
                THEN name \in DOMAIN Types /\ name \notin DOMAIN Resources
                ELSE name \notin DOMAIN Resources /\ name \notin DOMAIN Types

\* C1's case: a resource without properties, a dropped struct and a complex
\* type, all three processed without error
C1_Witness ==
    /\ pc = "printed"
    /\ <<"Widget">> \in DOMAIN Resources
    /\ DOMAIN Resources[<<"Widget">>].ObjectTypeSpec.Properties = {}
    /\ ~Registered(<<"Other">>)
    /\ <<"helper">> \in DOMAIN Types
    /\ \A i \in 1..Len(log) : log[i].res = "ok"

\* C2: no declaration is processed after one that raised an error; once one
\* has, Generate returns nil and an error; a schema is returned only when
\* every type declaration of the scope was processed without error.
C2_FailFast ==
    /\ \A i \in 1..(Len(log) - 1) : log[i].res = "ok"
    /\ (\E i \in 1..Len(log) : log[i].res = "error") =>
            /\ sch = NilSchema
            /\ pc \in {"gatherFailed", "generateFailed", "fatal"}
            /\ pc \in {"generateFailed", "fatal"} => err.kind # ""
    /\ ~sch.isNil =>
            /\ \A i \in 1..Len(log) : log[i].res = "ok"
            /\ {log[i].idx : i \in 1..Len(log)} =
                   {j \in 1..Len(Package.Scope) : Package.Scope[j].objKind = "TypeName"}

\* C2's case: the run ends in an error after a declaration was registered
\* and with a declaration left unprocessed
C2_Witness ==
    /\ pc = "fatal"
    /\ Len(log) = 2
    /\ log[2].res = "error"
    /\ Registered(Visited(1).name)
    /\ log[2].idx < Len(Package.Scope)
    /\ sch = NilSchema

\* (a) optional on a field that is no pointer, (b) out or replaces on a
\* declaration that is no resource
Offending(t, fld) ==
    LET o     == ParsePropertyOptions(fld.tag).opts
        isRes == IsResource(t, t.type.underlying)
    IN  /\ HasAnnotation(fld)
        /\ \/ o.Optional /\ fld.type.kind # "Pointer"
           \/ (o.Out \/ o.Replaces) /\ ~isRes.panic /\ ~isRes.val

FieldIndex(s, fname) == CHOOSE j \in 1..Len(s.fields) : s.fields[j].name = fname

\* C3 as claimed: whenever a field is offending, gathering fails, the error
\* it returns is a tag error, and the declaration is not registered.  (A run
\* that panics returns no error and is not held against the claim here.)
C3_Original ==
    \A i \in 1..Len(log) :
        LET t == Visited(i)
        IN  IsStructDecl(t) =>
                \A k \in 1..Len(t.type.underlying.fields) :
                    Offending(t, t.type.underlying.fields[k]) =>
                        /\ log[i].res # "ok"
                        /\ log[i].res = "error" => log[i].err.kind = "TagError"
                        /\ ~Registered(t.name)

\* C3, amended: whenever a field is offending, gathering does not succeed and
\* the declaration is not registered; an error returned is a tag error, or
\* the type-mapping error of an earlier field.
C3_TagValidation ==
    \A i \in 1..Len(log) :
        LET t == Visited(i)
            s == t.type.underlying
        IN  IsStructDecl(t) =>
                \A k \in 1..Len(s.fields) :
                    Offending(t, s.fields[k]) =>
                        /\ log[i].res # "ok"
                        /\ ~Registered(t.name)
                        /\ log[i].res = "error" =>
                              \/ log[i].err.kind = "TagError"
                              \/ /\ log[i].err.kind = "TypeMappingError"
                                 /\ FieldIndex(s, log[i].err.field) < k

\* C3's case: an optional field that is no pointer was met after a field
\* that passed, and the tag error raised
C3_Witness ==
    \E i \in 1..Len(log) :
        /\ IsStructDecl(Visited(i))
        /\ Len(Visited(i).type.underlying.fields) >= 2
        /\ Offending(Visited(i), Visited(i).type.underlying.fields[2])
        /\ log[i].res = "error"
        /\ log[i].err.kind = "TagError"
        /\ log[i].err.reason = "optional"
        /\ log[i].err.field = Visited(i).type.underlying.fields[2].name

\* token.IsExported, on the names of the packages explored: those that start
\* with an upper-case letter
Exported(name) == Head(name) \in {"New", "Other", "Widget"}

\* C8 as claimed: only exported declarations are visited, so only they are
\* registered and only they can fail the run.
C8_ExportedOnly ==
    /\ \A i \in 1..Len(log) : Exported(Visited(i).name)
    /\ \A name \in DOMAIN Resources \cup DOMAIN Types : Exported(name)

----------------------------------------------------------------------------
(* Properties of the annotation parser *)

\* the options the README's grammar gives an annotation value: the first
\* segment is the name, the others are flags or ref=<name>
ClaimedOptions(value) ==
    LET segs == Split(value, ",")
        rest == {i \in 2..Len(segs) : TRUE}
        refs == {i \in rest : HasPrefix(segs[i], <<"ref", "=">>)}
    IN  [Name     |-> segs[1],
         Optional |-> \E i \in rest : segs[i] = <<"optional">>,
         Replaces |-> \E i \in rest : segs[i] = <<"replaces">>,
         In       |-> \E i \in rest : segs[i] = <<"in">>,
         Out      |-> \E i \in rest : segs[i] = <<"out">>,
         Ref      |-> IF refs = {} THEN EmptyString
                      ELSE SubSeq(segs[Max(refs)], 3, Len(segs[Max(refs)]))]

\* C4 as claimed: the value of the annotation is split on commas, the first
\* segment is the name and the others set the flags and ref; no error.  So
\* `other,optional` gives the name "other" and optional.
C4_SplitsAnnotation ==
    (/\ pc = "return"
     /\ StructTagLookup(arg, PropertyNameTag).has
     /\ ~StructTagLookup(arg, PropertyOptionsTag).has)
    => ret = [has  |-> TRUE,
              opts |-> ClaimedOptions(StructTagLookup(arg, PropertyNameTag).value),
              err  |-> FALSE]

----------------------------------------------------------------------------
(* Properties of the type classifier *)

EndsWith(s, suffix) ==
    Len(s) >= Len(suffix) /\ SubSeq(s, Len(s) - Len(suffix) + 1, Len(s)) = suffix

\* an object of the marker package, vendored or not
InMarkerPackage(obj) == ~obj.isNil /\ obj.hasPkg /\ EndsWith(obj.path, PulumiPkgPath)

IsResourceMarker(obj) == InMarkerPackage(obj) /\ obj.name = <<"ResourceState">>

\* the struct (or the named type's struct) has an anonymous field whose
\* declared type is the Resource marker
EmbedsMarker(t) ==
    LET u == IF t.kind = "Named" THEN t.underlying ELSE t
    IN  /\ u.kind = "Struct"
        /\ \E k \in 1..Len(u.fields) :
              /\ u.fields[k].anonymous
              /\ u.fields[k].type.kind = "Named"
              /\ IsResourceMarker(u.fields[k].type.obj)

\* C5 as claimed: IsResource is true exactly when the declaration is the
\* Resource marker or its struct has an anonymous field of the marker's type.
C5_ResourceIff ==
    pc = "return" =>
        ((~ret.resource.panic /\ ret.resource.val)
            <=> (IsResourceMarker(arg.obj) \/ EmbedsMarker(arg.t)))

\* what holds of IsResource whenever it returns
C5_WhenItReturns ==
    (pc = "return" /\ ~ret.resource.panic) =>
        (ret.resource.val <=> (IsResourceMarker(arg.obj) \/ EmbedsMarker(arg.t)))

\* C6 as claimed: in the marker package IsSpecial tells the three markers by
\* name, everything else is not special, and IsEntity holds of the Asset and
\* Archive markers.
C6_ThreeMarkers ==
    (pc = "return" /\ ~arg.obj.isNil /\ arg.obj.hasPkg) =>
        /\ ret.special =
              (IF ~InMarkerPackage(arg.obj) THEN Special(FALSE, "NotSpecialType")
               ELSE IF arg.obj.name = <<"ResourceState">>
                    THEN Special(TRUE, "SpecialResourceType")
               ELSE IF arg.obj.name = <<"Asset">> THEN Special(TRUE, "SpecialAssetType")
               ELSE IF arg.obj.name = <<"Archive">> THEN Special(TRUE, "SpecialArchiveType")
               ELSE Special(FALSE, "NotSpecialType"))
        /\ (InMarkerPackage(arg.obj) /\ arg.obj.name \in {<<"Asset">>, <<"Archive">>})
              => ret.entity = Bool(TRUE)

----------------------------------------------------------------------------
(* Properties of the type mapper *)

RECURSIVE StripPointers(_)
StripPointers(t) == IF t.kind = "Pointer" THEN StripPointers(t.elem) ELSE t

\* a named type with a struct below it, behind any number of pointers
IsNamedStruct(t) ==
    LET u == StripPointers(t)
    IN  u.kind = "Named" /\ u.underlying.kind = "Struct"

\* C9: a named struct type, behind pointers or not, maps without error to the
\* reference "#/types/<R>", R being options.ref when that is not empty and
\* else "<package name>:index:<the type's own name>"; the struct's fields are
\* not visited (OtherStruct's would fail) and the registry, empty here, stays
\* as it is.
C9_StructReference ==
    (pc = "return" /\ IsNamedStruct(arg.t)) =>
        LET opts == ParsePropertyOptions(arg.tag).opts
            R    == IF opts.Ref # EmptyString THEN opts.Ref
                    ELSE arg.gName \o <<":", "index", ":">> \o StripPointers(arg.t).obj.name
        IN  /\ ret.err = ""
            /\ ret.spec = TypeSpec("", <<"#", "/", "types", "/">> \o R, NilTypeSpec)
            /\ Resources = <<>> /\ Types = <<>>

\* C9's case: the pointer to OtherStruct tagged `other,optional` is mapped to
\* the reference to acme:index:OtherStruct, which nothing registered
C9_Witness ==
    /\ pc = "return"
    /\ arg.t = Pointer(MapOtherType)
    /\ arg.tag = TagP(<<"other", ",", "optional">>)
    /\ arg.gName = <<"acme">>
    /\ ret.err = ""
    /\ ret.spec.Ref = <<"#", "/", "types", "/", "acme", ":", "index", ":", "OtherStruct">>
    /\ ~Registered(<<"OtherStruct">>)

\* an interface type that declares methods, used directly or under a name
IsMethodInterface(t) ==
    \/ t.kind = "Interface" /\ t.numMethods > 0
    \/ t.kind = "Named" /\ t.underlying.kind = "Interface" /\ t.underlying.numMethods > 0

\* C10 as claimed: an interface with methods is rejected as an unrecognized
\* field type, like a channel or a function, and Any is the mapping only of
\* interfaces without methods.
C10_MethodInterfaces ==
    pc = "return" =>
        /\ IsMethodInterface(arg.t) => ret.err = "UnrecognizedFieldType"
        /\ arg.t.kind \in {"Chan", "Signature"} => ret.err = "UnrecognizedFieldType"

----------------------------------------------------------------------------
(* Properties of repeated visits *)

\* C7: whatever the visits, no name is in Resources and in Types at once, and
\* a visit to a name that was registered leaves the registry as it was and
\* raises no error.
C7_Idempotent ==
    /\ DOMAIN Resources \cap DOMAIN Types = {}
    /\ (/\ ~ret.isNil
        /\ arg.name \in DOMAIN ret.resourcesBefore \cup DOMAIN ret.typesBefore)
       => /\ ret.res = "ok"
          /\ Resources = ret.resourcesBefore
          /\ Types = ret.typesBefore

\* C7's case: Widget, registered as a resource, was visited again with
\* another body, and Other is registered as a complex type
C7_Witness ==
    /\ ~ret.isNil
    /\ arg.name = <<"Widget">>
    /\ <<"Widget">> \in DOMAIN ret.resourcesBefore
    /\ TypeNameObj(arg.name, arg.body).type.underlying.fields # <<>>
    /\ ~IsResource(TypeNameObj(arg.name, arg.body), arg.body.under).val
    /\ <<"Widget">> \in DOMAIN Resources
    /\ <<"Other">> \in DOMAIN Types

----------------------------------------------------------------------------
(* Properties of the descriptions *)

\* the number of fields one field declaration of the source declares
Width(decl) == IF decl.names = <<>> THEN 1 ELSE Len(decl.names)

\* the position, in the list of field declarations, of the declaration of the
\* k-th field of the struct
RECURSIVE DeclIndex(_, _)
DeclIndex(list, k) ==
    IF k <= Width(Head(list)) THEN 1
    ELSE 1 + DeclIndex(Tail(list), k - Width(Head(list)))

\* the documentation text of the k-th field: that of its declaration
DeclaredDoc(list, k) ==
    LET d == list[DeclIndex(list, k)].doc
    IN  IF d.isNil THEN EmptyString ELSE SubSeq(d.text, 1, Len(d.text) - 1)

\* the properties registered under a name
PropertiesOf(name) ==
    IF name \in DOMAIN Resources THEN Resources[name].ObjectTypeSpec.Properties
    ELSE Types[name].ObjectTypeSpec.Properties

\* the k-th field of s is the field the property of its name is emitted for:
\* it is annotated with a name, and no later field carries the same name
EmitsProperty(s, k) ==
    LET parsed == ParsePropertyOptions(s.fields[k].tag)
    IN  /\ parsed.has
        /\ \A m \in (k + 1)..Len(s.fields) :
               LET later == ParsePropertyOptions(s.fields[m].tag)
               IN  ~(later.has /\ later.opts.Name = parsed.opts.Name)

\* the descriptions of the i-th declaration visited are those of its fields,
\* and the lookup did not fault
DescriptionsRight(i) ==
    LET t    == Visited(i)
        s    == t.type.underlying
        list == getTypeNode(Package.Files, t).node.type.list
    IN  /\ log[i].res = "panic" => IsResource(t, s).panic
        /\ (log[i].res = "ok" /\ Registered(t.name)) =>
               \A k \in 1..Len(s.fields) :
                   EmitsProperty(s, k) =>
                       PropertiesOf(t.name)[ParsePropertyOptions(s.fields[k].tag).opts.Name]
                           .Description = DeclaredDoc(list, k)

\* C11: for every struct declaration and every annotated field of it, the
\* emitted property's description is the documentation text of that same
\* field (empty when it has none), and gathering never faults while looking
\* it up, for any ordered field list, including those where one declaration
\* declares several fields.
C11_FieldDescriptions ==
    \A i \in 1..Len(log) : IsStructDecl(Visited(i)) => DescriptionsRight(i)

\* the same, for the struct declarations whose field declarations declare one
\* field each: there the two indices agree
C11_OneFieldPerDeclaration ==
    \A i \in 1..Len(log) :
        LET t == Visited(i)
        IN  (/\ IsStructDecl(t)
             /\ \A d \in 1..Len(getTypeNode(Package.Files, t).node.type.list) :
                    Width(getTypeNode(Package.Files, t).node.type.list[d]) = 1)
            => DescriptionsRight(i)

\* a struct with a documented property, one field per declaration, was
\* registered
C11_OneFieldPerDeclaration_Witness ==
    /\ pc = "printed"
    /\ <<"Widget">> \in DOMAIN Types
    /\ <<"name">> \in DOMAIN PropertiesOf(<<"Widget">>)
    /\ PropertiesOf(<<"Widget">>)[<<"name">>].Description # EmptyString

============================================================================
